---- MODULE Spec2Model ----
(***************************************************************************)
(* mdu: disk usage of the files given on the command line, measured by a   *)
(* pool of worker threads that drain a shared array of pending             *)
(* directories (src/mdu.c).                                                *)
(*                                                                         *)
(* The file system is an input: a forest of entries (parent), each with a  *)
(* type (ftype) and a block count (st_blocks).  Entries whose parent is 0  *)
(* are the paths given on the command line, in command-line order.         *)
(***************************************************************************)
EXTENDS Integers, Sequences, FiniteSets, TLC

\* ---- bounds of the model ------------------------------------------------
MaxThreads == 2
MaxNodes == 3
MaxErrors == 1

\* ---- the input ----------------------------------------------------------
Nodes == 1..MaxNodes

\* what lstat/opendir/closedir do on an entry
\*   "file"    a non-directory that can be statted
\*   "dir"     a directory that can be statted, opened and closed
\*   "nostat"  lstat fails
\*   "noopen"  a directory that can be statted but opendir fails
\*   "noclose" a directory that can be statted and read but closedir fails
FTypes == {"file", "dir", "nostat", "noopen", "noclose"}

\* S_ISDIR of a successful lstat
is_dir(t) == t \in {"dir", "noopen", "noclose"}

\* the directories readdir can list
Listable == {"dir", "noclose"}

\* An uninitialised struct stat (lstat failed in initialize_files): the
\* values st_blocks may have; S_ISDIR(st_mode) may be true or false.
GarbageBlocks == {0, 2}

VARIABLES
  thread_max,          \* -j: number of worker threads
  parent,              \* the forest: parent[n] = 0 for a command-line path
  ftype,               \* the type of each entry
  pc_main,             \* position of the main thread
  id,                  \* next root id (initialize)
  total_sizes,         \* one slot per root seen so far, indexed from 0
  nr_available_files,
  available_files,     \* the array, as a sequence of dir_info
  exit_status,
  done_threads,
  done,
  available_sem,       \* value of the counting semaphore
  available_lock,      \* holder of the mutex: -1 (free) or a thread id
  size_lock,           \* holder of the mutex: -1 (free) or a thread id
  status_lock,         \* holder of the mutex: -1 (free) or a thread id
  pc,                  \* position of each worker
  loc,                 \* locals of each worker: i, f, size, entries, temp, load,
                       \* resume (where it goes on after setting exit_status)
  hist                 \* history: what has happened so far (not program state)

vars == <<thread_max, parent, ftype, pc_main, id, total_sizes,
          nr_available_files, available_files, exit_status, done_threads,
          done, available_sem, available_lock, size_lock, status_lock, pc,
          loc, hist>>

input == <<thread_max, parent, ftype>>
mainv == <<pc_main, id>>

Threads == 0..(thread_max - 1)

\* struct stat.st_blocks of an entry: distinct weights, so that a sum tells
\* how often each entry was counted
st_blocks(n) == 4 ^ (n - 1)

\* command-line paths in order, and the entries of a directory
Roots == {n \in Nodes : parent[n] = 0}
RootNode(r) == CHOOSE n \in Roots : Cardinality({m \in Roots : m < n}) = r
NrRoots == Cardinality(Roots)
Children(n) == {c \in Nodes : parent[c] = n}

NoFile == [parent_id |-> -1, name |-> 0]
NoLocals == [i |-> 0, f |-> NoFile, size |-> 0, entries |-> {}, temp |-> 0,
             load |-> 0, resume |-> ""]

\* ---- the forests the model is run on ------------------------------------
\* entries are numbered so that parents come before children and the
\* parents are nondecreasing (every forest has one such numbering)
Forests ==
  {p \in [Nodes -> 0..(MaxNodes - 1)] :
     /\ \A n \in Nodes : p[n] < n
     /\ \A n \in Nodes : n > 1 => p[n - 1] <= p[n]}

\* only directories have entries (those of a directory that cannot be opened
\* are there but cannot be listed); at most MaxErrors entries on which a
\* system call fails
TypesOf(p) ==
  {t \in [Nodes -> FTypes] :
     /\ \A n \in Nodes : p[n] # 0 => is_dir(t[p[n]])
     /\ Cardinality({n \in Nodes : t[n] \notin {"file", "dir"}}) <= MaxErrors}

NoHistory ==
  [pushed |-> [n \in Nodes |-> 0],     \* completed set_available_file per entry
   popped |-> [n \in Nodes |-> 0],     \* get_available_file results per entry
   wild |-> 0,                         \* pops that read outside the array
   posts |-> 0,                        \* sem_post calls announcing a push
   term_posts |-> 0,                   \* sem_post calls of the termination loop
   declared |-> {},                    \* workers that took the if(done) branch
   woken |-> {},                       \* workers that left through line 175
   seeded |-> <<>>,                    \* what initialize_files stored per root
   errors |-> 0,                       \* failed lstat, opendir, closedir calls
   failed |-> {},                      \* directories a worker could not open
   added |-> [n \in Nodes |-> 0],      \* sizes returned, per expanded directory
   order |-> <<>>]                     \* the pushed entries, in push order

Init ==
  /\ thread_max \in 1..MaxThreads
  /\ parent \in Forests
  /\ ftype \in TypesOf(parent)
  /\ pc_main = "initialize"
  /\ id = 0
  /\ total_sizes = <<>>
  /\ nr_available_files = 0
  /\ available_files = <<>>
  /\ exit_status = 0
  /\ done_threads = [t \in Threads |-> FALSE]
  /\ done = FALSE
  /\ available_sem = 0
  /\ available_lock = -1
  /\ size_lock = -1
  /\ status_lock = -1
  /\ pc = [t \in Threads |-> "none"]
  /\ loc = [t \in Threads |-> NoLocals]
  /\ hist = NoHistory

\* ---- the array of pending directories -----------------------------------
\* set_available_file: the array after realloc to nr + 1 elements and the
\* write of f at index nr
Pushed(arr, nr, f) ==
  IF nr >= 0 /\ nr <= Len(arr) THEN Append(SubSeq(arr, 1, nr), f)
  ELSE arr

InArray(arr, nr) == nr >= 1 /\ nr <= Len(arr)

\* get_available_file: what available_files[nr - 1] (0-based) can be read as;
\* outside the allocated array the read is undefined and may give any dir_info
PoppedFiles(arr, nr) ==
  IF InArray(arr, nr) THEN {arr[nr]}
  ELSE [parent_id : 0..(NrRoots - 1), name : Nodes]

\* ---- main thread --------------------------------------------------------
\* initialize, one iteration of the loop over argv, with initialize_files up
\* to and including set_available_file
initialize_files ==
  /\ pc_main = "initialize"
  /\ id < NrRoots
  /\ LET n == RootNode(id)
         file == [parent_id |-> id, name |-> n]
     IN \E blocks \in (IF ftype[n] = "nostat" THEN GarbageBlocks
                       ELSE {st_blocks(n)}),
           isdir \in (IF ftype[n] = "nostat" THEN BOOLEAN
                      ELSE {is_dir(ftype[n])}),
           errs \in {IF ftype[n] = "nostat" THEN 1 ELSE 0} :
          /\ exit_status' = IF ftype[n] = "nostat" THEN 1 ELSE exit_status
          /\ total_sizes' = [r \in 0..id |->
                               IF r = id THEN 0 + blocks ELSE total_sizes[r]]
          /\ IF isdir
             THEN /\ nr_available_files' = nr_available_files + 1
                  /\ available_files' =
                       Pushed(available_files, nr_available_files, file)
                  /\ hist' = [hist EXCEPT !.pushed[n] = @ + 1,
                                          !.order = Append(@, n),
                                          !.errors = @ + errs,
                                          !.seeded = Append(@, blocks)]
                  /\ pc_main' = "sem_post"
                  /\ id' = id
             ELSE /\ UNCHANGED <<nr_available_files, available_files>>
                  /\ hist' = [hist EXCEPT !.errors = @ + errs,
                                          !.seeded = Append(@, blocks)]
                  /\ pc_main' = "initialize"
                  /\ id' = id + 1
  /\ UNCHANGED <<input, done_threads, done, available_sem, available_lock,
                 size_lock, status_lock, pc, loc>>

\* a seeder that pushes a root without announcing it
initialize_no_post ==
  /\ pc_main = "sem_post"
  /\ id' = id + 1
  /\ pc_main' = "initialize"
  /\ UNCHANGED <<input, total_sizes, nr_available_files, available_files,
                 exit_status, done_threads, done, available_sem,
                 available_lock, size_lock, status_lock, pc, loc, hist>>

\* a seeder that posts twice for one pushed root
initialize_sem_post_twice ==
  /\ pc_main = "sem_post"
  /\ available_sem' = available_sem + 2
  /\ hist' = [hist EXCEPT !.posts = @ + 2]
  /\ id' = id + 1
  /\ pc_main' = "initialize"
  /\ UNCHANGED <<input, total_sizes, nr_available_files, available_files,
                 exit_status, done_threads, done, available_lock, size_lock,
                 status_lock, pc, loc>>

\* initialize_files: sem_post after the push, then the next argv
initialize_sem_post ==
  /\ pc_main = "sem_post"
  /\ available_sem' = available_sem + 1
  /\ hist' = [hist EXCEPT !.posts = @ + 1]
  /\ id' = id + 1
  /\ pc_main' = "initialize"
  /\ UNCHANGED <<input, total_sizes, nr_available_files, available_files,
                 exit_status, done_threads, done, available_lock, size_lock,
                 status_lock, pc, loc>>

\* main: after initialize, workers are started only if something was pushed
main_after_initialize ==
  /\ pc_main = "initialize"
  /\ id = NrRoots
  /\ pc_main' = IF nr_available_files > 0 THEN "run_threads" ELSE "print"
  /\ UNCHANGED <<input, id, total_sizes, nr_available_files, available_files,
                 exit_status, done_threads, done, available_sem,
                 available_lock, size_lock, status_lock, pc, loc, hist>>

\* run_threads: pthread_create of the next thread, then join_threads
run_threads ==
  /\ pc_main = "run_threads"
  /\ LET waiting == {t \in Threads : pc[t] = "none"}
     IN IF waiting = {}
        THEN /\ pc_main' = "join_threads"
             /\ pc' = pc
        ELSE /\ pc_main' = "run_threads"
             /\ pc' = [pc EXCEPT ![CHOOSE t \in waiting :
                                     \A u \in waiting : t <= u] = "lock"]
  /\ UNCHANGED <<input, id, total_sizes, nr_available_files, available_files,
                 exit_status, done_threads, done, available_sem,
                 available_lock, size_lock, status_lock, loc, hist>>

\* join_threads returns when every worker has returned
join_threads ==
  /\ pc_main = "join_threads"
  /\ \A t \in Threads : pc[t] = "terminated"
  /\ pc_main' = "print"
  /\ UNCHANGED <<input, id, total_sizes, nr_available_files, available_files,
                 exit_status, done_threads, done, available_sem,
                 available_lock, size_lock, status_lock, pc, loc, hist>>

\* main: print, free_memory, return exit_status
print ==
  /\ pc_main = "print"
  /\ pc_main' = "exit"
  /\ UNCHANGED <<input, id, total_sizes, nr_available_files, available_files,
                 exit_status, done_threads, done, available_sem,
                 available_lock, size_lock, status_lock, pc, loc, hist>>

\* ---- worker threads: thread_func ----------------------------------------
\* an idle check that scans done_threads whether or not something is queued
thread_func_lock_noempty(t) ==
  /\ pc[t] = "lock"
  /\ available_lock = -1
  /\ available_lock' = t
  /\ done_threads' = [done_threads EXCEPT ![t] = TRUE]
  /\ done' = TRUE
  /\ loc' = [loc EXCEPT ![t].i = 0]
  /\ pc' = [pc EXCEPT ![t] = "scan"]
  /\ UNCHANGED <<input, mainv, total_sizes, nr_available_files,
                 available_files, exit_status, available_sem, size_lock,
                 status_lock, hist>>

\* a worker that sets done = true before it looks at nr_available_files
thread_func_lock_provisional(t) ==
  /\ pc[t] = "lock"
  /\ available_lock = -1
  /\ available_lock' = t
  /\ done_threads' = [done_threads EXCEPT ![t] = TRUE]
  /\ done' = TRUE
  /\ IF nr_available_files = 0
     THEN /\ loc' = [loc EXCEPT ![t].i = 0]
          /\ pc' = [pc EXCEPT ![t] = "scan"]
     ELSE /\ UNCHANGED loc
          /\ pc' = [pc EXCEPT ![t] = "unlock"]
  /\ UNCHANGED <<input, mainv, total_sizes, nr_available_files,
                 available_files, exit_status, available_sem, size_lock,
                 status_lock, hist>>

\* lines 150-153: lock available_lock, mark this thread idle, and start the
\* scan of done_threads if nothing is queued
thread_func_lock(t) ==
  /\ pc[t] = "lock"
  /\ available_lock = -1
  /\ available_lock' = t
  /\ done_threads' = [done_threads EXCEPT ![t] = TRUE]
  /\ IF nr_available_files = 0
     THEN /\ done' = TRUE
          /\ loc' = [loc EXCEPT ![t].i = 0]
          /\ pc' = [pc EXCEPT ![t] = "scan"]
     ELSE /\ UNCHANGED <<done, loc>>
          /\ pc' = [pc EXCEPT ![t] = "unlock"]
  /\ UNCHANGED <<input, mainv, total_sizes, nr_available_files,
                 available_files, exit_status, available_sem, size_lock,
                 status_lock, hist>>

\* lines 154-159: one iteration of the scan of done_threads
thread_func_scan(t) ==
  /\ pc[t] = "scan"
  /\ IF loc[t].i < thread_max
     THEN IF done_threads[loc[t].i] = FALSE
          THEN /\ done' = FALSE
               /\ pc' = [pc EXCEPT ![t] = "if_done"]
               /\ loc' = loc
          ELSE /\ loc' = [loc EXCEPT ![t].i = @ + 1]
               /\ UNCHANGED <<done, pc>>
     ELSE /\ pc' = [pc EXCEPT ![t] = "if_done"]
          /\ UNCHANGED <<done, loc>>
  /\ UNCHANGED <<input, mainv, total_sizes, nr_available_files,
                 available_files, exit_status, done_threads, available_sem,
                 available_lock, size_lock, status_lock, hist>>

\* line 162: if(done) after the scan
thread_func_if_done(t) ==
  /\ pc[t] = "if_done"
  /\ IF done
     THEN /\ pc' = [pc EXCEPT ![t] = "declare"]
          /\ loc' = [loc EXCEPT ![t].i = 0]
          /\ hist' = [hist EXCEPT !.declared = @ \cup {t}]
     ELSE /\ pc' = [pc EXCEPT ![t] = "unlock"]
          /\ UNCHANGED <<loc, hist>>
  /\ UNCHANGED <<input, mainv, total_sizes, nr_available_files,
                 available_files, exit_status, done_threads, done,
                 available_sem, available_lock, size_lock, status_lock>>

\* a declarer that leaves without waking the others
thread_func_declare_nopost(t) ==
  /\ pc[t] = "declare"
  /\ available_lock' = -1
  /\ pc' = [pc EXCEPT ![t] = "terminated"]
  /\ loc' = [loc EXCEPT ![t] = NoLocals]
  /\ UNCHANGED <<input, mainv, total_sizes, nr_available_files,
                 available_files, exit_status, done_threads, done,
                 available_sem, size_lock, status_lock, hist>>

\* a declarer that posts once per other thread only (thread_max - 1 posts)
thread_func_declare_short(t) ==
  /\ pc[t] = "declare"
  /\ IF loc[t].i < thread_max - 1
     THEN /\ available_sem' = available_sem + 1
          /\ loc' = [loc EXCEPT ![t].i = @ + 1]
          /\ hist' = [hist EXCEPT !.term_posts = @ + 1]
          /\ UNCHANGED <<available_lock, pc>>
     ELSE /\ available_lock' = -1
          /\ pc' = [pc EXCEPT ![t] = "terminated"]
          /\ loc' = [loc EXCEPT ![t] = NoLocals]
          /\ UNCHANGED <<available_sem, hist>>
  /\ UNCHANGED <<input, mainv, total_sizes, nr_available_files,
                 available_files, exit_status, done_threads, done, size_lock,
                 status_lock>>

\* lines 163-167: one sem_post per thread, then unlock and leave the loop
thread_func_declare(t) ==
  /\ pc[t] = "declare"
  /\ IF loc[t].i < thread_max
     THEN /\ available_sem' = available_sem + 1
          /\ loc' = [loc EXCEPT ![t].i = @ + 1]
          /\ hist' = [hist EXCEPT !.term_posts = @ + 1]
          /\ UNCHANGED <<available_lock, pc>>
     ELSE /\ available_lock' = -1
          /\ pc' = [pc EXCEPT ![t] = "terminated"]
          /\ loc' = [loc EXCEPT ![t] = NoLocals]
          /\ UNCHANGED <<available_sem, hist>>
  /\ UNCHANGED <<input, mainv, total_sizes, nr_available_files,
                 available_files, exit_status, done_threads, done, size_lock,
                 status_lock>>

\* a worker that goes on to sem_wait without unlocking available_lock
thread_func_unlock_kept(t) ==
  /\ pc[t] = "unlock"
  /\ pc' = [pc EXCEPT ![t] = "sem_wait"]
  /\ loc' = [loc EXCEPT ![t] = NoLocals]
  /\ UNCHANGED <<input, mainv, total_sizes, nr_available_files,
                 available_files, exit_status, done_threads, done,
                 available_sem, available_lock, size_lock, status_lock, hist>>

\* line 170
thread_func_unlock(t) ==
  /\ pc[t] = "unlock"
  /\ available_lock' = -1
  /\ pc' = [pc EXCEPT ![t] = "sem_wait"]
  /\ loc' = [loc EXCEPT ![t] = NoLocals]
  /\ UNCHANGED <<input, mainv, total_sizes, nr_available_files,
                 available_files, exit_status, done_threads, done,
                 available_sem, size_lock, status_lock, hist>>

\* a sem_wait that returns without taking the signal
thread_func_sem_wait_keep(t) ==
  /\ pc[t] = "sem_wait"
  /\ available_sem > 0
  /\ pc' = [pc EXCEPT ![t] = "chk_done"]
  /\ UNCHANGED <<input, mainv, total_sizes, nr_available_files,
                 available_files, exit_status, done_threads, done,
                 available_sem, available_lock, size_lock,
                 status_lock, loc, hist>>

\* a sem_wait that returns although no signal is there
thread_func_sem_wait_spurious(t) ==
  /\ pc[t] = "sem_wait"
  /\ available_sem' = IF available_sem > 0 THEN available_sem - 1 ELSE 0
  /\ pc' = [pc EXCEPT ![t] = "chk_done"]
  /\ UNCHANGED <<input, mainv, total_sizes, nr_available_files,
                 available_files, exit_status, done_threads, done,
                 available_lock, size_lock, status_lock, loc, hist>>

\* line 172
thread_func_sem_wait(t) ==
  /\ pc[t] = "sem_wait"
  /\ available_sem > 0
  /\ available_sem' = available_sem - 1
  /\ pc' = [pc EXCEPT ![t] = "chk_done"]
  /\ UNCHANGED <<input, mainv, total_sizes, nr_available_files,
                 available_files, exit_status, done_threads, done,
                 available_lock, size_lock, status_lock, loc, hist>>

\* a worker that does not look at done after sem_wait
thread_func_chk_done_ignore(t) ==
  /\ pc[t] = "chk_done"
  /\ pc' = [pc EXCEPT ![t] = "set_busy"]
  /\ UNCHANGED <<input, mainv, total_sizes, nr_available_files,
                 available_files, exit_status, done_threads, done,
                 available_sem, available_lock, size_lock,
                 status_lock, loc, hist>>

\* lines 174-176: the read of done after sem_wait, without a lock
thread_func_chk_done(t) ==
  /\ pc[t] = "chk_done"
  /\ IF done
     THEN /\ pc' = [pc EXCEPT ![t] = "terminated"]
          /\ hist' = [hist EXCEPT !.woken = @ \cup {t}]
     ELSE /\ pc' = [pc EXCEPT ![t] = "set_busy"]
          /\ hist' = hist
  /\ UNCHANGED <<input, mainv, total_sizes, nr_available_files,
                 available_files, exit_status, done_threads, done,
                 available_sem, available_lock, size_lock, status_lock, loc>>

\* a worker that does not clear its idle flag before it pops
thread_func_set_busy_skip(t) ==
  /\ pc[t] = "set_busy"
  /\ pc' = [pc EXCEPT ![t] = "get_available_file"]
  /\ UNCHANGED <<input, mainv, total_sizes, nr_available_files,
                 available_files, exit_status, done_threads, done,
                 available_sem, available_lock, size_lock,
                 status_lock, loc, hist>>

\* line 178: done_threads[id] = false, without a lock
thread_func_set_busy(t) ==
  /\ pc[t] = "set_busy"
  /\ done_threads' = [done_threads EXCEPT ![t] = FALSE]
  /\ pc' = [pc EXCEPT ![t] = "get_available_file"]
  /\ UNCHANGED <<input, mainv, total_sizes, nr_available_files,
                 available_files, exit_status, done, available_sem,
                 available_lock, size_lock, status_lock, loc, hist>>

\* a pop from the other end of the array: the oldest queued item
get_available_file_fifo(t) ==
  /\ pc[t] = "get_available_file"
  /\ available_lock = -1
  /\ nr_available_files' = nr_available_files - 1
  /\ \E f \in (IF InArray(available_files, nr_available_files)
               THEN {available_files[1]}
               ELSE PoppedFiles(available_files, nr_available_files)) :
       /\ loc' = [loc EXCEPT ![t].f = f]
       /\ hist' = IF InArray(available_files, nr_available_files)
                  THEN [hist EXCEPT !.popped[f.name] = @ + 1]
                  ELSE [hist EXCEPT !.wild = @ + 1]
  /\ available_files' = IF InArray(available_files, nr_available_files)
                        THEN Tail(available_files)
                        ELSE available_files
  /\ pc' = [pc EXCEPT ![t] = "get_directory_size"]
  /\ UNCHANGED <<input, mainv, total_sizes, exit_status, done_threads, done,
                 available_sem, available_lock, size_lock, status_lock>>

\* line 181, lines 306-314: pop under available_lock
get_available_file(t) ==
  /\ pc[t] = "get_available_file"
  /\ available_lock = -1
  /\ nr_available_files' = nr_available_files - 1
  /\ \E f \in PoppedFiles(available_files, nr_available_files) :
       /\ loc' = [loc EXCEPT ![t].f = f]
       /\ hist' = IF InArray(available_files, nr_available_files)
                  THEN [hist EXCEPT !.popped[f.name] = @ + 1]
                  ELSE [hist EXCEPT !.wild = @ + 1]
  /\ pc' = [pc EXCEPT ![t] = "get_directory_size"]
  /\ UNCHANGED <<input, mainv, total_sizes, available_files, exit_status,
                 done_threads, done, available_sem, available_lock, size_lock,
                 status_lock>>

\* a failed lstat or opendir that returns 0 without recording the error
get_directory_size_quiet(t) ==
  /\ pc[t] = "get_directory_size"
  /\ LET n == loc[t].f.name
     IN IF ftype[n] \in Listable
        THEN /\ loc' = [loc EXCEPT ![t].size = 0, ![t].entries = Children(n)]
             /\ pc' = [pc EXCEPT ![t] = "readdir"]
             /\ hist' = hist
        ELSE /\ hist' = [hist EXCEPT !.errors = @ + 1,
                                     !.failed = @ \cup {n}]
             /\ loc' = [loc EXCEPT ![t].size = 0]
             /\ pc' = [pc EXCEPT ![t] = "add_lock"]
  /\ UNCHANGED <<input, mainv, total_sizes, nr_available_files,
                 available_files, exit_status, done_threads, done,
                 available_sem, available_lock, size_lock, status_lock>>

\* lines 200-227: lstat and opendir of the popped directory; when one of
\* them fails the thread locks status_lock (lines 212, 222) and returns 0
get_directory_size(t) ==
  /\ pc[t] = "get_directory_size"
  /\ LET n == loc[t].f.name
     IN IF ftype[n] \in Listable
        THEN /\ loc' = [loc EXCEPT ![t].size = 0, ![t].entries = Children(n)]
             /\ pc' = [pc EXCEPT ![t] = "readdir"]
             /\ UNCHANGED <<status_lock, hist>>
        ELSE /\ status_lock = -1
             /\ status_lock' = t
             /\ hist' = [hist EXCEPT !.errors = @ + 1,
                                     !.failed = @ \cup {n}]
             /\ loc' = [loc EXCEPT ![t].size = 0, ![t].resume = "add_lock"]
             /\ pc' = [pc EXCEPT ![t] = "exit_status"]
  /\ UNCHANGED <<input, mainv, total_sizes, nr_available_files,
                 available_files, exit_status, done_threads, done,
                 available_sem, available_lock, size_lock>>

\* a status_lock section that leaves exit_status as it was
set_exit_status_lost(t) ==
  /\ pc[t] = "exit_status"
  /\ status_lock' = -1
  /\ pc' = [pc EXCEPT ![t] = loc[t].resume]
  /\ loc' = [loc EXCEPT ![t].resume = ""]
  /\ UNCHANGED <<input, mainv, total_sizes, nr_available_files,
                 available_files, exit_status, done_threads, done,
                 available_sem, available_lock, size_lock, hist>>

\* lines 213-214, 223-224, 241-242, 275-276: exit_status = 1 under
\* status_lock, then on with what the failed call leaves to do
set_exit_status(t) ==
  /\ pc[t] = "exit_status"
  /\ exit_status' = 1
  /\ status_lock' = -1
  /\ pc' = [pc EXCEPT ![t] = loc[t].resume]
  /\ loc' = [loc EXCEPT ![t].resume = ""]
  /\ UNCHANGED <<input, mainv, total_sizes, nr_available_files,
                 available_files, done_threads, done, available_sem,
                 available_lock, size_lock, hist>>

\* a readdir that gives every pushed subdirectory the parent_id 0
readdir_root0(t) ==
  /\ pc[t] = "readdir"
  /\ IF loc[t].entries = {}
     THEN IF ftype[loc[t].f.name] = "noclose"
          THEN /\ status_lock = -1
               /\ status_lock' = t
               /\ hist' = [hist EXCEPT !.errors = @ + 1]
               /\ loc' = [loc EXCEPT ![t].resume = "add_lock"]
               /\ pc' = [pc EXCEPT ![t] = "exit_status"]
               /\ UNCHANGED <<nr_available_files, available_files>>
          ELSE /\ pc' = [pc EXCEPT ![t] = "add_lock"]
               /\ UNCHANGED <<loc, nr_available_files, available_files,
                              status_lock, hist>>
     ELSE \E e \in loc[t].entries :
            IF ftype[e] = "nostat"
            THEN /\ status_lock = -1
                 /\ status_lock' = t
                 /\ hist' = [hist EXCEPT !.errors = @ + 1]
                 /\ loc' = [loc EXCEPT ![t].entries = @ \ {e},
                                       ![t].resume = "readdir"]
                 /\ pc' = [pc EXCEPT ![t] = "exit_status"]
                 /\ UNCHANGED <<nr_available_files, available_files>>
            ELSE IF is_dir(ftype[e])
            THEN /\ available_lock = -1
                 /\ nr_available_files' = nr_available_files + 1
                 /\ available_files' =
                      Pushed(available_files, nr_available_files,
                             [parent_id |-> 0, name |-> e])
                 /\ hist' = [hist EXCEPT !.pushed[e] = @ + 1,
                                         !.order = Append(@, e)]
                 /\ loc' = [loc EXCEPT ![t].entries = @ \ {e}, ![t].temp = e]
                 /\ pc' = [pc EXCEPT ![t] = "sem_post"]
                 /\ UNCHANGED status_lock
            ELSE /\ loc' = [loc EXCEPT ![t].entries = @ \ {e},
                                       ![t].size = @ + st_blocks(e)]
                 /\ UNCHANGED <<pc, nr_available_files, available_files,
                                status_lock, hist>>
  /\ UNCHANGED <<input, mainv, total_sizes, exit_status, done_threads, done,
                 available_sem, available_lock, size_lock>>

\* lines 230-243 with get_available_file_size (256-287): one readdir; a
\* subdirectory is pushed under available_lock; after the last entry closedir
readdir(t) ==
  /\ pc[t] = "readdir"
  /\ IF loc[t].entries = {}
     THEN IF ftype[loc[t].f.name] = "noclose"
          THEN /\ status_lock = -1
               /\ status_lock' = t
               /\ hist' = [hist EXCEPT !.errors = @ + 1]
               /\ loc' = [loc EXCEPT ![t].resume = "add_lock"]
               /\ pc' = [pc EXCEPT ![t] = "exit_status"]
               /\ UNCHANGED <<nr_available_files, available_files>>
          ELSE /\ pc' = [pc EXCEPT ![t] = "add_lock"]
               /\ UNCHANGED <<loc, nr_available_files, available_files,
                              status_lock, hist>>
     ELSE \E e \in loc[t].entries :
            IF ftype[e] = "nostat"
            THEN /\ status_lock = -1
                 /\ status_lock' = t
                 /\ hist' = [hist EXCEPT !.errors = @ + 1]
                 /\ loc' = [loc EXCEPT ![t].entries = @ \ {e},
                                       ![t].resume = "readdir"]
                 /\ pc' = [pc EXCEPT ![t] = "exit_status"]
                 /\ UNCHANGED <<nr_available_files, available_files>>
            ELSE IF is_dir(ftype[e])
            THEN /\ available_lock = -1
                 /\ nr_available_files' = nr_available_files + 1
                 /\ available_files' =
                      Pushed(available_files, nr_available_files,
                             [parent_id |-> loc[t].f.parent_id, name |-> e])
                 /\ hist' = [hist EXCEPT !.pushed[e] = @ + 1,
                                         !.order = Append(@, e)]
                 /\ loc' = [loc EXCEPT ![t].entries = @ \ {e}, ![t].temp = e]
                 /\ pc' = [pc EXCEPT ![t] = "sem_post"]
                 /\ UNCHANGED status_lock
            ELSE /\ loc' = [loc EXCEPT ![t].entries = @ \ {e},
                                       ![t].size = @ + st_blocks(e)]
                 /\ UNCHANGED <<pc, nr_available_files, available_files,
                                status_lock, hist>>
  /\ UNCHANGED <<input, mainv, total_sizes, exit_status, done_threads, done,
                 available_sem, available_lock, size_lock>>

\* a subdirectory whose own st_blocks is not returned
sem_post_nosize(t) ==
  /\ pc[t] = "sem_post"
  /\ available_sem' = available_sem + 1
  /\ hist' = [hist EXCEPT !.posts = @ + 1]
  /\ loc' = [loc EXCEPT ![t].temp = 0]
  /\ pc' = [pc EXCEPT ![t] = "readdir"]
  /\ UNCHANGED <<input, mainv, total_sizes, nr_available_files,
                 available_files, exit_status, done_threads, done,
                 available_lock, size_lock, status_lock>>

\* a push that is announced twice
sem_post_twice(t) ==
  /\ pc[t] = "sem_post"
  /\ available_sem' = available_sem + 2
  /\ hist' = [hist EXCEPT !.posts = @ + 2]
  /\ loc' = [loc EXCEPT ![t].size = @ + st_blocks(loc[t].temp), ![t].temp = 0]
  /\ pc' = [pc EXCEPT ![t] = "readdir"]
  /\ UNCHANGED <<input, mainv, total_sizes, nr_available_files,
                 available_files, exit_status, done_threads, done,
                 available_lock, size_lock, status_lock>>

\* lines 288-295: sem_post for the pushed subdirectory, return its st_blocks
sem_post(t) ==
  /\ pc[t] = "sem_post"
  /\ available_sem' = available_sem + 1
  /\ hist' = [hist EXCEPT !.posts = @ + 1]
  /\ loc' = [loc EXCEPT ![t].size = @ + st_blocks(loc[t].temp), ![t].temp = 0]
  /\ pc' = [pc EXCEPT ![t] = "readdir"]
  /\ UNCHANGED <<input, mainv, total_sizes, nr_available_files,
                 available_files, exit_status, done_threads, done,
                 available_lock, size_lock, status_lock>>

\* an add that reads total_sizes without waiting for size_lock
add_nolock(t) ==
  /\ pc[t] = "add_lock"
  /\ size_lock' = t
  /\ loc' = [loc EXCEPT ![t].load = total_sizes[loc[t].f.parent_id]]
  /\ pc' = [pc EXCEPT ![t] = "add"]
  /\ hist' = [hist EXCEPT !.added[loc[t].f.name] = @ + loc[t].size]
  /\ UNCHANGED <<input, mainv, total_sizes, nr_available_files,
                 available_files, exit_status, done_threads, done,
                 available_sem, available_lock, status_lock>>

\* a worker that reads the slot and lets go of size_lock before it writes
add_lock_released(t) ==
  /\ pc[t] = "add_lock"
  /\ size_lock = -1
  /\ size_lock' = -1
  /\ loc' = [loc EXCEPT ![t].load = total_sizes[loc[t].f.parent_id]]
  /\ pc' = [pc EXCEPT ![t] = "add"]
  /\ hist' = [hist EXCEPT !.added[loc[t].f.name] = @ + loc[t].size]
  /\ UNCHANGED <<input, mainv, total_sizes, nr_available_files,
                 available_files, exit_status, done_threads, done,
                 available_sem, available_lock, status_lock>>

\* lines 183-184: lock size_lock and read total_sizes[f.parent_id]
add_lock(t) ==
  /\ pc[t] = "add_lock"
  /\ size_lock = -1
  /\ size_lock' = t
  /\ loc' = [loc EXCEPT ![t].load = total_sizes[loc[t].f.parent_id]]
  /\ pc' = [pc EXCEPT ![t] = "add"]
  /\ hist' = [hist EXCEPT !.added[loc[t].f.name] = @ + loc[t].size]
  /\ UNCHANGED <<input, mainv, total_sizes, nr_available_files,
                 available_files, exit_status, done_threads, done,
                 available_sem, available_lock, status_lock>>

\* lines 184-185: write total_sizes[f.parent_id] and unlock size_lock
add(t) ==
  /\ pc[t] = "add"
  /\ total_sizes' = [total_sizes EXCEPT ![loc[t].f.parent_id] =
                                          loc[t].load + loc[t].size]
  /\ size_lock' = -1
  /\ loc' = [loc EXCEPT ![t] = NoLocals]
  /\ pc' = [pc EXCEPT ![t] = "lock"]
  /\ UNCHANGED <<input, mainv, nr_available_files, available_files,
                 exit_status, done_threads, done, available_sem,
                 available_lock, status_lock, hist>>

thread_func(t) ==
  \/ thread_func_lock(t)
  \/ thread_func_scan(t)
  \/ thread_func_if_done(t)
  \/ thread_func_declare(t)
  \/ thread_func_unlock(t)
  \/ thread_func_sem_wait(t)
  \/ thread_func_chk_done(t)
  \/ thread_func_set_busy(t)
  \/ get_available_file(t)
  \/ get_directory_size(t)
  \/ set_exit_status(t)
  \/ readdir(t)
  \/ sem_post(t)
  \/ add_lock(t)
  \/ add(t)

main ==
  \/ initialize_files
  \/ initialize_sem_post
  \/ main_after_initialize
  \/ run_threads
  \/ join_threads
  \/ print

Next == main \/ \E t \in Threads : thread_func(t)

Spec == Init /\ [][Next]_vars

\* the scheduler lets every thread that can take a step eventually take one
FairSpec ==
  /\ Spec
  /\ WF_vars(main)
  /\ \A t \in 0..(MaxThreads - 1) : WF_vars(t \in Threads /\ thread_func(t))

\* ---- what the input determines ------------------------------------------
RECURSIVE IsUnder(_, _)
\* entry n is a or lies beneath a
IsUnder(n, a) == n = a \/ (parent[n] # 0 /\ IsUnder(parent[n], a))

RECURSIVE SumBlocks(_)
SumBlocks(S) ==
  IF S = {} THEN 0
  ELSE LET n == CHOOSE m \in S : TRUE IN st_blocks(n) + SumBlocks(S \ {n})

RECURSIVE SumOf(_, _)
SumOf(f, S) ==
  IF S = {} THEN 0
  ELSE LET n == CHOOSE m \in S : TRUE IN f[n] + SumOf(f, S \ {n})

RootIds == 0..(NrRoots - 1)
\* the entries reachable from root r, the root itself included
Reachable(r) == {n \in Nodes : IsUnder(n, RootNode(r))}
\* n is strictly beneath a and every directory from a down to the one that
\* holds n can be listed
RECURSIVE Listed(_, _)
Listed(n, a) ==
  /\ parent[n] # 0
  /\ ftype[parent[n]] \in Listable
  /\ (parent[n] = a \/ Listed(parent[n], a))
\* the entries beneath root r that a traversal gets to and lstat succeeds on
StattedBelow(r) ==
  {n \in Nodes : Listed(n, RootNode(r)) /\ ftype[n] # "nostat"}

NrPushed == SumOf(hist.pushed, Nodes)
NrPopped == SumOf(hist.popped, Nodes)
AllTerminated == \A t \in Threads : pc[t] = "terminated"
Finished == pc_main \in {"print", "exit"}
\* pushes whose sem_post has not happened yet
PendingPosts ==
  Cardinality({t \in Threads : pc[t] = "sem_post"})
    + (IF pc_main = "sem_post" THEN 1 ELSE 0)
\* workers that returned from sem_wait and have not popped yet
Claimed ==
  Cardinality({t \in Threads :
                 pc[t] \in {"chk_done", "set_busy", "get_available_file"}})

\* ---- claims -------------------------------------------------------------

\* C1: once the worker threads are started (at least one directory was
\* seeded), under fair scheduling every worker eventually terminates: no
\* worker stays blocked in sem_wait or on a mutex for ever.
C1_Termination == (pc_main = "run_threads") ~> AllTerminated

\* two workers have terminated, one of them woken by a termination post
C1_Witness ==
  /\ thread_max = 2
  /\ AllTerminated
  /\ hist.woken # {}
  /\ NrPopped >= 2

\* C2: when no lstat and no opendir fails, once the workers are done every
\* root's slot holds the block count of the root plus that of every entry beneath
\* it, each entry counted exactly once, for every thread count.
C2_TotalsExact ==
  (Finished /\ \A n \in Nodes : ftype[n] \notin {"nostat", "noopen"}) =>
    \A r \in RootIds : total_sizes[r] = SumBlocks(Reachable(r))

\* one root directory with a subdirectory that has an entry of its own,
\* measured by two workers
C2_Witness ==
  /\ pc_main = "exit"
  /\ exit_status = 0
  /\ thread_max = 2
  /\ parent = <<0, 1, 2>>
  /\ hist.popped[2] = 1
  /\ total_sizes[0] = 21

C4_NoLostWork ==
  /\ hist.wild = 0
  /\ \A n \in Nodes : hist.popped[n] <= hist.pushed[n] /\ hist.pushed[n] <= 1
  /\ hist.declared # {} => \A n \in Nodes : hist.popped[n] = hist.pushed[n]

\* termination is declared after three pushes, all popped
C4_Witness ==
  /\ hist.declared # {}
  /\ thread_max = 2
  /\ NrPushed = 3
  /\ NrPopped = 3

\* C5: at most one worker ever takes the if(done) branch of the idle check,
\* and once all workers have terminated exactly one has; every other worker
\* left through the if(done) break after sem_wait.
C5_OneDeclarer ==
  /\ Cardinality(hist.declared) <= 1
  /\ hist.declared \cap hist.woken = {}
  /\ AllTerminated =>
       /\ Cardinality(hist.declared) = 1
       /\ hist.woken = Threads \ hist.declared

\* both workers are gone: one declared, the other was woken
C5_Witness ==
  /\ thread_max = 2
  /\ AllTerminated
  /\ Cardinality(hist.declared) = 1
  /\ Cardinality(hist.woken) = 1

\* C6: termination is declared only at quiescence: when a worker takes the
\* if(done) branch the array is empty, the semaphore is 0, every other worker
\* is idle in sem_wait; from then on nr_available_files stays 0 and no worker
\* is ever again between sem_wait's return and the end of its add, so nothing
\* is pushed.
C6_Quiescence ==
  hist.declared # {} =>
    /\ nr_available_files = 0
    /\ NrPushed = NrPopped
    /\ \A u \in Threads :
         /\ done_threads[u]
         /\ pc[u] \in {"declare", "sem_wait", "chk_done", "terminated"}
    /\ hist.term_posts = 0 =>
         /\ available_sem = 0
         /\ \A u \in Threads \ hist.declared : pc[u] = "sem_wait"

\* a worker is about to issue the wake-ups while the other one waits
C6_Witness ==
  /\ thread_max = 2
  /\ hist.declared # {}
  /\ hist.term_posts = 0
  /\ NrPopped >= 2
  /\ \E u \in Threads : pc[u] = "sem_wait"

\* C7 as stated: the semaphore value is the queue length in every state.
C7_SemEqualsLength == available_sem = nr_available_files

\* C7 amended: the semaphore value is the queue length less the pushes whose
\* post is still to come and less the workers that returned from sem_wait
\* and have not popped yet, plus the termination posts not yet consumed.
C7_SemAccounting ==
  available_sem + PendingPosts + Claimed + Cardinality(hist.woken)
    = nr_available_files + hist.term_posts

\* a worker holds a wake-up it has not used yet while a push awaits its post
C7_Witness ==
  /\ hist.declared = {}
  /\ \E t \in Threads : pc[t] = "get_available_file"
  /\ \E t \in Threads : pc[t] = "sem_post"
  /\ available_sem < nr_available_files

\* C8: nr_available_files is never negative; a worker about to run
\* get_available_file always finds at least one item; the count is the
\* pushes less the pops, and when the program ends they are equal.
C8_NeverNegative ==
  /\ nr_available_files >= 0
  /\ nr_available_files = NrPushed - NrPopped - hist.wild
  /\ \A t \in Threads :
       pc[t] = "get_available_file" => InArray(available_files,
                                               nr_available_files)
  /\ Finished => nr_available_files = 0

\* two workers are about to pop at the same time
C8_Witness ==
  /\ thread_max = 2
  /\ \A t \in Threads : pc[t] = "get_available_file"
  /\ nr_available_files = 2

\* C9: the declaring worker posts thread_max times and leaves without
\* waiting; a worker that returns from sem_wait afterwards reads done = true
\* and terminates without clearing its idle flag and without popping.
C9_TerminationWakeups ==
  /\ hist.term_posts <= thread_max
  /\ \A t \in hist.declared :
       /\ pc[t] \in {"declare", "terminated"}
       /\ pc[t] = "terminated" => hist.term_posts = thread_max
  /\ hist.declared # {} =>
       /\ done
       /\ \A u \in Threads :
            pc[u] \notin {"set_busy", "get_available_file"}
  /\ \A u \in hist.woken :
       /\ pc[u] = "terminated"
       /\ done_threads[u]
       /\ hist.declared # {}

\* the declarer has left after its thread_max posts and the other worker has
\* been woken by one of them
C9_Witness ==
  /\ thread_max = 2
  /\ hist.term_posts = 2
  /\ \E t \in hist.declared : pc[t] = "terminated"
  /\ hist.woken # {}
  /\ available_sem = 1

\* C10: every completed set_available_file is announced by exactly one
\* sem_post, made after the push: the posts never outnumber the pushes and
\* fall short of them exactly by the pushes whose post is still to come.
C10_OnePostPerPush ==
  /\ hist.posts <= NrPushed
  /\ NrPushed - hist.posts = PendingPosts

\* a worker has pushed a subdirectory and not posted yet
C10_Witness ==
  /\ \E t \in Threads : pc[t] = "sem_post"
  /\ hist.posts = 1
  /\ NrPushed = 2

\* the entries beneath root r that lstat succeeds on and that are not inside
\* a directory some worker failed to open
Outside(r) ==
  {n \in Reachable(r) :
     /\ n # RootNode(r)
     /\ ftype[n] # "nostat"
     /\ ~ \E d \in hist.failed : n # d /\ IsUnder(n, d)}

\* C11: error isolation. When a worker cannot stat or open the directory it
\* expands, the error flag gets set (as soon as the worker has left its
\* status_lock section), nothing beneath that directory is pushed or added,
\* every other pushed item is still popped, all workers terminate, and at the
\* end every root's total is the value seeded for it plus the blocks of every
\* statable entry outside the unreadable subtrees (so a root with no
\* unreadable directory beneath it has its full total).
C11_ErrorIsolation ==
  /\ []((hist.failed # {} /\ \A t \in Threads : pc[t] # "exit_status")
          => exit_status = 1)
  /\ [](\A d \in hist.failed :
          /\ hist.added[d] = 0
          /\ \A m \in Nodes : parent[m] = d => hist.pushed[m] = 0)
  /\ []((Finished /\ hist.failed # {}) =>
          /\ \A n \in Nodes : hist.popped[n] = hist.pushed[n]
          /\ \A r \in RootIds :
               total_sizes[r] = hist.seeded[r + 1] + SumBlocks(Outside(r)))
  /\ ((hist.failed # {}) ~> AllTerminated)
\* a finished run in which a directory that has an entry could not be opened
C11_Witness ==
  /\ Finished
  /\ AllTerminated
  /\ exit_status = 1
  /\ \E d \in hist.failed : \E m \in Nodes : parent[m] = d

\* C12: the error flag is sticky and exact. exit_status starts at 0, is 0 or
\* 1, never goes back from 1 to 0, is 1 once a failed lstat, opendir or
\* closedir has been recorded (a worker records it inside its status_lock
\* section), is 1 only if such a call failed, and when main returns the exit
\* code is 1 if and only if at least one such call failed during the run.
C12_StickyExact ==
  /\ exit_status = 0
  /\ [](exit_status \in {0, 1})
  /\ [][exit_status = 1 => exit_status' = 1]_vars
  /\ []((hist.errors > 0 /\ \A t \in Threads : pc[t] # "exit_status")
          => exit_status = 1)
  /\ [](exit_status = 1 => hist.errors > 0)
  /\ [](pc_main = "exit" => (exit_status = 1 <=> hist.errors > 0))
\* main has returned 1 after a worker's closedir failed
C12_Witness ==
  /\ pc_main = "exit"
  /\ exit_status = 1
  /\ \E n \in Nodes : ftype[n] = "noclose" /\ hist.popped[n] > 0

\* the size a worker holds between its read and its write of slot r
PendingAdd(r) ==
  LET S == {t \in Threads : pc[t] = "add" /\ loc[t].f.parent_id = r}
  IN IF S = {} THEN 0 ELSE loc[CHOOSE t \in S : TRUE].size

\* C13: adds to total_sizes are atomic. At most one worker is inside the
\* read-modify-write of line 184, it holds size_lock, and the value it read
\* is still the value of the slot; the seeder adds only while no worker
\* thread exists; so no add is lost: every slot, with the add in progress,
\* is the seeded value plus all sizes the expansions beneath that root have
\* returned.
C13_AtomicAdds ==
  /\ Cardinality({t \in Threads : pc[t] = "add"}) <= 1
  /\ \A t \in Threads :
       pc[t] = "add" =>
         /\ size_lock = t
         /\ loc[t].load = total_sizes[loc[t].f.parent_id]
  /\ pc_main \in {"initialize", "sem_post"} =>
       \A t \in Threads : pc[t] = "none"
  /\ \A r \in DOMAIN total_sizes :
       total_sizes[r] + PendingAdd(r) =
         hist.seeded[r + 1] + SumOf(hist.added, Reachable(r))
\* one worker is inside the add while the other waits for size_lock to add
\* to the same slot
C13_Witness ==
  \E t, u \in Threads :
    /\ pc[t] = "add"
    /\ pc[u] = "add_lock"
    /\ loc[t].f.parent_id = loc[u].f.parent_id
    /\ loc[t].size > 0
    /\ loc[u].size > 0

\* C14: root seeding. The roots get the ids 0, 1, 2, ... in command-line
\* order; the slot of a seeded root is initialised to the root's own block
\* count (0 when the root cannot be statted); a seeded root has been pushed
\* exactly once if it is a directory and never otherwise, so a root that is
\* not a directory is never popped; and when no root is a directory no
\* worker thread is started.
C14_RootSeeding ==
  /\ Len(hist.seeded) = (IF pc_main \in {"initialize", "sem_post"}
                         THEN id + (IF pc_main = "sem_post" THEN 1 ELSE 0)
                         ELSE NrRoots)
  /\ \A r \in RootIds :
       r < Len(hist.seeded) =>
         LET n == RootNode(r)
         IN /\ hist.seeded[r + 1] =
                 (IF ftype[n] = "nostat" THEN 0 ELSE st_blocks(n))
            /\ hist.pushed[n] = (IF is_dir(ftype[n]) THEN 1 ELSE 0)
            /\ ~ is_dir(ftype[n]) => hist.popped[n] = 0
  /\ (\A r \in RootIds : ~ is_dir(ftype[RootNode(r)])) =>
       \A t \in Threads : pc[t] = "none"

\* the id of the root that entry n lies beneath
Owner(n) == CHOOSE r \in RootIds : IsUnder(n, RootNode(r))
\* the workers that hold a popped dir_info
Holding ==
  {t \in Threads :
     pc[t] \in {"get_directory_size", "exit_status", "readdir", "sem_post",
                "add_lock", "add"}}

\* C15: every dir_info in the queue or in the hands of a worker carries the
\* id of the root its directory lies beneath (a pushed subdirectory gets the
\* parent_id of the directory being expanded), and while the workers run a
\* step changes a slot of total_sizes only by adding the size a worker
\* returned for a directory of that root: the slots of all other roots stay
\* as they are.
C15_OwnerFrame ==
  /\ [](/\ \A k \in 1..nr_available_files :
             InArray(available_files, k) =>
               available_files[k].parent_id = Owner(available_files[k].name)
        /\ \A t \in Holding : loc[t].f.parent_id = Owner(loc[t].f.name))
  /\ [][pc_main = "join_threads" =>
          \A r \in RootIds :
            total_sizes'[r] # total_sizes[r] =>
              \E t \in Threads :
                /\ pc[t] = "add"
                /\ pc'[t] = "lock"
                /\ loc[t].f.parent_id = r
                /\ Owner(loc[t].f.name) = r
                /\ total_sizes'[r] = total_sizes[r] + loc[t].size]_vars
\* a worker adds the size of a pushed subdirectory of the second root while
\* the first root is a directory too
C15_Witness ==
  \E t \in Threads :
    /\ pc[t] = "add"
    /\ NrRoots = 2
    /\ is_dir(ftype[RootNode(0)])
    /\ loc[t].f.parent_id = 1
    /\ loc[t].f.name # RootNode(1)

NotPopped(n) == hist.popped[n] = 0
\* the pushed entries that have not been popped, in push order
Outstanding == SelectSeq(hist.order, NotPopped)

\* C16: the work queue is LIFO. In every reachable state the queue holds
\* exactly the pushed entries that have not been popped, oldest first, and
\* every get_available_file returns the most recently pushed of them and
\* leaves the others queued, whatever the interleaving of pushes and pops.
C16_Lifo ==
  /\ [](/\ nr_available_files = Len(Outstanding)
        /\ nr_available_files <= Len(available_files)
        /\ \A k \in 1..nr_available_files :
             available_files[k].name = Outstanding[k])
  /\ [][\A t \in Threads :
          (pc[t] = "get_available_file" /\ pc'[t] = "get_directory_size") =>
            /\ Len(Outstanding) >= 1
            /\ loc'[t].f = available_files[nr_available_files]
            /\ loc'[t].f.name = Outstanding[Len(Outstanding)]
            /\ nr_available_files' = nr_available_files - 1]_vars
\* after an earlier pop, a worker holds an entry that was pushed later than
\* one that is still queued
C16_Witness ==
  /\ NrPopped >= 2
  /\ \E t \in Threads :
       /\ pc[t] = "get_directory_size"
       /\ \E i, j \in 1..Len(hist.order) :
            /\ i < j
            /\ hist.order[j] = loc[t].f.name
            /\ hist.popped[hist.order[i]] = 0

\* C17: before termination is declared, the semaphore value plus the number
\* of workers that have returned from sem_wait and have not yet run
\* get_available_file is at most nr_available_files: signals never
\* outnumber queued items. (Between a push and its post the sum is
\* strictly smaller than the queue length.)
C17_TokensBounded ==
  hist.declared = {} =>
    /\ available_sem + Claimed <= nr_available_files
    /\ available_sem + Claimed + PendingPosts = nr_available_files
\* one worker has pushed and not yet posted while the other is between
\* sem_wait and its pop: the semaphore is below the queue length
C17_Witness ==
  /\ hist.declared = {}
  /\ available_sem + Claimed < nr_available_files
  /\ \E t, u \in Threads :
       /\ pc[t] = "sem_post"
       /\ pc[u] \in {"chk_done", "set_busy", "get_available_file"}

\* C18: the provisional done = true of the all-idle scan is never observed.
\* While termination has not been declared, no worker is at the read of
\* done after sem_wait (line 174) in a state where done is true, so such a
\* worker always goes on to its pop; a worker leaves through line 175 only
\* after a declaration, with the queue empty and every other worker waiting
\* on the semaphore, woken, posting the wake-ups or gone: no scan is in
\* progress and none can start.
C18_ProvisionalDoneUnseen ==
  /\ [](\A t \in Threads :
          (pc[t] = "chk_done" /\ hist.declared = {}) => ~ done)
  /\ [][\A t \in Threads :
          (pc[t] = "chk_done" /\ pc'[t] # "chk_done") =>
            IF hist.declared = {}
            THEN pc'[t] = "set_busy"
            ELSE /\ pc'[t] = "terminated"
                 /\ nr_available_files = 0
                 /\ \A u \in Threads :
                      pc[u] \in {"sem_wait", "chk_done", "declare",
                                 "terminated"}]_vars
\* a scan is in progress with done provisionally true while the other
\* worker is busy with a directory
C18_Witness ==
  /\ done
  /\ hist.declared = {}
  /\ \E t, u \in Threads :
       /\ pc[t] = "scan"
       /\ done_threads[u] = FALSE
       /\ pc[u] \in {"get_directory_size", "readdir", "add_lock", "add"}

\* C19: the unlocked write done_threads[id] = false (line 178) never meets
\* the all-idle scan. A worker that has returned from sem_wait and is going
\* to pop (it has read done = false, or no termination has been declared)
\* implies nr_available_files >= 1; while a worker is between sem_wait and
\* the write, no worker is inside the scan; and every worker that a scan
\* finds marked idle is waiting in sem_wait, so none is wrongly counted.
C19_BusyWriteUnscanned ==
  /\ \A t \in Threads :
       (\/ pc[t] \in {"set_busy", "get_available_file"}
        \/ (pc[t] = "chk_done" /\ hist.declared = {}))
         => nr_available_files >= 1
  /\ \A t, u \in Threads :
       pc[t] \in {"chk_done", "set_busy"} => pc[u] \notin {"scan", "if_done"}
  /\ \A t, u \in Threads :
       (pc[t] \in {"scan", "if_done"} /\ u # t /\ done_threads[u])
         => pc[u] = "sem_wait"
\* a worker is about to clear its idle flag, which is still set, while the
\* other worker is about to lock available_lock for its check
C19_Witness ==
  \E t, u \in Threads :
    /\ pc[t] = "set_busy"
    /\ done_threads[t]
    /\ pc[u] = "lock"
    /\ nr_available_files = 1

\* the mutexes thread t holds
Held(t) ==
  {l \in {"available_lock", "size_lock", "status_lock"} :
     \/ (l = "available_lock" /\ available_lock = t)
     \/ (l = "size_lock" /\ size_lock = t)
     \/ (l = "status_lock" /\ status_lock = t)}

\* C20: no thread holds more than one of available_lock, size_lock and
\* status_lock at a time: a thread holds at most one of them in every
\* reachable state, it holds none whenever its next step locks one (lines
\* 150, 183, 212, 222, 240, 274, 308, 325), and it holds none while it is in
\* sem_wait; the main thread's mutex sections are over before a worker runs.
C20_OneMutex ==
  /\ \A t \in Threads :
       /\ Cardinality(Held(t)) <= 1
       /\ pc[t] \in {"lock", "get_available_file", "get_directory_size",
                     "readdir", "sem_post", "add_lock", "sem_wait",
                     "chk_done", "set_busy", "none", "terminated"}
            => Held(t) = {}
       /\ pc[t] \in {"scan", "if_done", "declare", "unlock"}
            => Held(t) = {"available_lock"}
       /\ pc[t] = "exit_status" => Held(t) = {"status_lock"}
       /\ pc[t] = "add" => Held(t) = {"size_lock"}
  /\ {available_lock, size_lock, status_lock} \subseteq Threads \cup {-1}
  /\ pc_main \in {"initialize", "sem_post"} =>
       (available_lock = -1 /\ size_lock = -1 /\ status_lock = -1)
\* one worker is inside the scan under available_lock while the other is
\* inside a status_lock section
C20_Witness ==
  \E t, u \in Threads :
    /\ available_lock = t
    /\ pc[t] = "scan"
    /\ status_lock = u
    /\ pc[u] = "exit_status"
====
